---- MODULE Spec2Model ----
(***************************************************************************)
(* The persistence layer of the RAG assistant (src/db.py, src/models.py):  *)
(* documents, pages, sessions and messages in one SQLite file, reached     *)
(* through short-lived SQLAlchemy sessions.                                *)
(*                                                                         *)
(* db    the committed contents of the database file: what every reader    *)
(*       sees.  Each table is a set of rows; seq is sqlite_sequence, the   *)
(*       largest id AUTOINCREMENT has handed out per table.                *)
(* txn   the one write transaction SQLite allows at a time: the operation  *)
(*       that owns it, its argument, its private working copy of the       *)
(*       database and the number of statements it has executed.            *)
(* last  the operation that returned last, with its argument and result.   *)
(* now   CURRENT_TIMESTAMP (one-second resolution).                        *)
(*                                                                         *)
(* Every statement is modelled by the SQL it denotes, on SQLite's          *)
(* semantics (AUTOINCREMENT, LIKE, LIMIT, foreign keys off by default,     *)
(* one writer at a time).  A writing operation is a transaction of one or  *)
(* two statements followed by a commit; between any two of these steps     *)
(* other callers may read, and the operation may fail and roll back.       *)
(***************************************************************************)
EXTENDS Integers, Sequences, FiniteSets, TLC

VARIABLES db, txn, last, now

vars == <<db, txn, last, now>>

\* ------------------------------------------------------------------ bounds

\* Rows AUTOINCREMENT may hand out per table.
MaxId == 2

\* CURRENT_TIMESTAMP ranges over 0..MaxClock.
MaxClock == 1

\* Rows AUTOINCREMENT may hand out for documents, pages and sessions where all
\* four tables run together (messages: MaxId).
MaxRows == 1

\* Citation lists passed to create_message have at most this many elements.
MaxCitations == 2

Ids == 1..MaxId

\* --------------------------------------------------------------- constants

\* An Optional value: None is the empty set, a present value x is {x}.
None == {}

Some(x) == {x}

The(o) == CHOOSE x \in o : TRUE

\* DocumentStatus
StatusNew == "new"

\* MessageRole
Roles == {"user", "assistant"}

\* The dummy relevance score search_pages attaches, 1.0, in hundredths.
DummyScore == 100

\* Results of an operation that raised.
IntegrityError == "IntegrityError"
OperationalError == "OperationalError"
TypeError == "TypeError"
ValidationError == "ValidationError"
Aborted == "aborted"
Ok == "ok"

\* SQLite enforces FOREIGN KEY clauses only on a connection that has issued
\* PRAGMA foreign_keys=ON; SCHEMA_SQL issues journal_mode=WAL alone and
\* get_engine installs no connect hook.
ForeignKeysEnforced == FALSE

\* ----------------------------------------------------------------- helpers

Min(a, b) == IF a <= b THEN a ELSE b

\* Every arrangement of the finite set S as a sequence without repetition.
Arrangements(S) ==
    { f \in [1..Cardinality(S) -> S] : \A i, j \in DOMAIN f : f[i] = f[j] => i = j }

\* Every sequence of n distinct elements of S.
Selections(S, n) ==
    { f \in [1..n -> S] : \A i, j \in DOMAIN f : f[i] = f[j] => i = j }

EmptyDb ==
    [ documents |-> {}, pages |-> {}, sessions |-> {}, messages |-> {},
      seq |-> [documents |-> 0, pages |-> 0, sessions |-> 0, messages |-> 0] ]

NoTxn == [op |-> "none", arg |-> None, work |-> EmptyDb, pc |-> 0]

NoCall == [op |-> "none", arg |-> None, error |-> Ok, result |-> None]

\* ------------------------------------------------------------------ models

\* models.Document: status (an Optional here) defaults to DocumentStatus.NEW
\* when not given.
Document(d) ==
    [ name |-> d.name, bytes |-> d.bytes, pages |-> d.pages, sha256 |-> d.sha256,
      status |-> IF d.status = None THEN StatusNew ELSE The(d.status) ]

\* ------------------------------------------------------ statements (SQL)

\* Mutant: the INSERT leaves status out, so the column takes its DEFAULT 'new'.
InsertDocument_StatusOmitted(d, doc) ==
    LET id == d.seq.documents + 1
    IN  [ d EXCEPT !.documents = @ \cup
                       { [ id |-> id, name |-> doc.name, bytes |-> doc.bytes,
                           pages |-> doc.pages, sha256 |-> doc.sha256,
                           status |-> StatusNew, created_at |-> now ] },
                   !.seq.documents = id ]

\* INSERT INTO documents (name, bytes, pages, sha256, status) ... RETURNING id
InsertDocument(d, doc) ==
    LET id == d.seq.documents + 1
    IN  [ d EXCEPT !.documents = @ \cup
                       { [ id |-> id, name |-> doc.name, bytes |-> doc.bytes,
                           pages |-> doc.pages, sha256 |-> doc.sha256,
                           status |-> doc.status, created_at |-> now ] },
                   !.seq.documents = id ]

\* UPDATE documents SET status = :status WHERE id = :doc_id
UpdateDocumentStatus(d, doc_id, status) ==
    [ d EXCEPT !.documents =
        { IF r.id = doc_id THEN [r EXCEPT !.status = status] ELSE r : r \in @ } ]

\* DELETE FROM pages WHERE doc_id = :doc_id
DeletePagesWhere(d, doc_id) ==
    [ d EXCEPT !.pages = { r \in @ : r.doc_id # doc_id } ]

\* DELETE FROM documents WHERE id = :doc_id
DeleteDocumentWhere(d, doc_id) ==
    [ d EXCEPT !.documents = { r \in @ : r.id # doc_id } ]

\* Mutant: the index on (doc_id, page_no) is not UNIQUE.
PageKeyTaken_NotUnique(d, page) == FALSE

\* idx_pages_doc_page: UNIQUE (doc_id, page_no)
PageKeyTaken(d, page) ==
    \E r \in d.pages : r.doc_id = page.doc_id /\ r.page_no = page.page_no

\* FOREIGN KEY(doc_id) REFERENCES documents(id), when enforced
PageParentMissing(d, page) ==
    ForeignKeysEnforced /\ ~ \E r \in d.documents : r.id = page.doc_id

\* INSERT INTO pages (doc_id, page_no, text) ... RETURNING id
InsertPage(d, page) ==
    LET id == d.seq.pages + 1
    IN  [ d EXCEPT !.pages = @ \cup
                       { [ id |-> id, doc_id |-> page.doc_id,
                           page_no |-> page.page_no, text |-> page.text ] },
                   !.seq.pages = id ]

\* INSERT INTO sessions (title) ... RETURNING id
InsertSession(d, s) ==
    LET id == d.seq.sessions + 1
    IN  [ d EXCEPT !.sessions = @ \cup
                       { [id |-> id, title |-> s.title, created_at |-> now] },
                   !.seq.sessions = id ]

\* DELETE FROM messages WHERE session_id = :session_id
DeleteMessagesWhere(d, session_id) ==
    [ d EXCEPT !.messages = { r \in @ : r.session_id # session_id } ]

\* DELETE FROM sessions WHERE id = :session_id
DeleteSessionWhere(d, session_id) ==
    [ d EXCEPT !.sessions = { r \in @ : r.id # session_id } ]

\* DELETE FROM messages WHERE id = :message_id
DeleteMessageWhere(d, message_id) ==
    [ d EXCEPT !.messages = { r \in @ : r.id # message_id } ]

\* FOREIGN KEY(session_id) REFERENCES sessions(id), when enforced
MessageParentMissing(d, m) ==
    ForeignKeysEnforced /\ ~ \E r \in d.sessions : r.id = m.session_id

\* INSERT INTO messages (session_id, role, content, citations) ... RETURNING id
\* citations_json is the column value: None for NULL, else the JSON text.
InsertMessage(d, m, citations_json) ==
    LET id == d.seq.messages + 1
    IN  [ d EXCEPT !.messages = @ \cup
                       { [ id |-> id, session_id |-> m.session_id, role |-> m.role,
                           content |-> m.content, citations |-> citations_json,
                           created_at |-> now ] },
                   !.seq.messages = id ]

\* ----------------------------------------------------------------- queries

\* SELECT ... FROM documents WHERE id = :doc_id, fetchone()
GetDocument(d, doc_id) ==
    { [ id |-> r.id, name |-> r.name, bytes |-> r.bytes, pages |-> r.pages,
        sha256 |-> r.sha256, status |-> r.status, created_at |-> r.created_at ]
      : r \in { x \in d.documents : x.id = doc_id } }

\* SELECT ... FROM documents ORDER BY created_at DESC: every order the
\* statement allows (rows of one second come in no stated order).
ListDocuments(d) ==
    { f \in Arrangements(d.documents) :
        \A i, j \in DOMAIN f : i < j => f[i].created_at >= f[j].created_at }

\* SELECT ... FROM pages WHERE doc_id = :doc_id ORDER BY page_no
GetPagesForDocument(d, doc_id) ==
    { f \in Arrangements({ r \in d.pages : r.doc_id = doc_id }) :
        \A i, j \in DOMAIN f : i < j => f[i].page_no <= f[j].page_no }

\* SQLite folds the 26 ASCII letters for LIKE.
Lower(c) ==
    CASE c = "A" -> "a"
      [] c = "B" -> "b"
      [] OTHER   -> c

\* SQLite's LIKE without ESCAPE, on strings given as sequences of characters:
\* % matches any run of characters, _ any one character, and letters match
\* without regard to case.
RECURSIVE Like(_, _)
Like(pattern, str) ==
    IF pattern = <<>> THEN str = <<>>
    ELSE IF Head(pattern) = "%"
         THEN Like(Tail(pattern), str) \/ (str # <<>> /\ Like(pattern, Tail(str)))
         ELSE /\ str # <<>>
              /\ (Head(pattern) = "_" \/ Lower(Head(pattern)) = Lower(Head(str)))
              /\ Like(Tail(pattern), Tail(str))

\* SELECT ... FROM pages WHERE text LIKE :query LIMIT :limit with
\* query = f"%{query}%": every result the statement allows.  There is no
\* ORDER BY, so any limit of the matching rows may come, in any order; a
\* negative LIMIT is no limit.  Each row is paired with the dummy score.
SearchPages(d, query, limit) ==
    LET matching == { r \in d.pages : Like(<<"%">> \o query \o <<"%">>, r.text) }
        n == IF limit < 0 THEN Cardinality(matching)
             ELSE Min(limit, Cardinality(matching))
    IN  { [ i \in 1..n |-> [page |-> f[i], score |-> DummyScore] ]
          : f \in Selections(matching, n) }

\* SELECT ... FROM sessions WHERE id = :session_id, fetchone()
GetSession(d, session_id) ==
    { r \in d.sessions : r.id = session_id }

\* SELECT ... FROM sessions ORDER BY created_at DESC
ListSessions(d) ==
    { f \in Arrangements(d.sessions) :
        \A i, j \in DOMAIN f : i < j => f[i].created_at >= f[j].created_at }

\* Mutant: the COUNT(*) has no WHERE clause.
GetMessageCountForSession_NoWhere(d, session_id) ==
    LET result == Cardinality(d.messages)
    IN  IF result # 0 THEN result ELSE 0

\* SELECT COUNT(*) FROM messages WHERE session_id = :session_id; result or 0
GetMessageCountForSession(d, session_id) ==
    LET result == Cardinality({ r \in d.messages : r.session_id = session_id })
    IN  IF result # 0 THEN result ELSE 0

\* SELECT ... FROM messages WHERE session_id = :session_id
\* ORDER BY created_at ASC: every order of the rows the statement allows.
MessageRowsForSession(d, session_id) ==
    { f \in Arrangements({ r \in d.messages : r.session_id = session_id }) :
        \A i, j \in DOMAIN f : i < j => f[i].created_at <= f[j].created_at }

\* -------------------------------------------------------------------- JSON

\* JSON text is a sequence of tokens: punctuation, string, integer and float
\* literals (a float in hundredths), null, and text no JSON grammar accepts.
Tok(k, s, n) == [k |-> k, s |-> s, n |-> n]

P(c) == Tok("p", c, 0)

TStr(s) == Tok("str", s, 0)

TInt(n) == Tok("int", "", n)

TFloat(n) == Tok("float", "", n)

TNull == Tok("null", "", 0)

TBad == Tok("bad", "", 0)

\* A decoded JSON value: t is its Python type; a str has s, an int or float
\* has n, a list has its elements in items, a dict its [key, val] pairs.
JVal(t, s, n, items) == [t |-> t, s |-> s, n |-> n, items |-> items]

JNull == JVal("NoneType", "", 0, <<>>)

\* Citation.dict() for one citation, as json.dumps writes it.
DumpCitation(c) ==
    << P("{"), TStr("doc_name"), P(":"), TStr(c.doc_name), P(","),
       TStr("page"), P(":"), TInt(c.page), P(","),
       TStr("score"), P(":"), TFloat(c.score), P("}") >>

\* json.dumps of a list of Citation.dict()
RECURSIVE DumpItems(_)
DumpItems(cs) ==
    IF cs = <<>> THEN <<>>
    ELSE IF Len(cs) = 1 THEN DumpCitation(cs[1])
    ELSE DumpCitation(cs[1]) \o <<P(",")>> \o DumpItems(Tail(cs))

Dumps(cs) == <<P("[")>> \o DumpItems(cs) \o <<P("]")>>

\* json.loads: a recursive-descent parse from position i, giving
\* [ok, val, next]; ok is FALSE where the decoder raises JSONDecodeError.
ParseFail == [ok |-> FALSE, val |-> JNull, next |-> 0]

Parsed(v, i) == [ok |-> TRUE, val |-> v, next |-> i]

IsP(toks, i, c) == i <= Len(toks) /\ toks[i].k = "p" /\ toks[i].s = c

RECURSIVE ParseValue(_, _), ParseElements(_, _, _), ParseMembers(_, _, _)

ParseValue(toks, i) ==
    IF i > Len(toks) THEN ParseFail
    ELSE LET t == toks[i]
         IN  CASE t.k = "str"   -> Parsed(JVal("str", t.s, 0, <<>>), i + 1)
               [] t.k = "int"   -> Parsed(JVal("int", "", t.n, <<>>), i + 1)
               [] t.k = "float" -> Parsed(JVal("float", "", t.n, <<>>), i + 1)
               [] t.k = "null"  -> Parsed(JNull, i + 1)
               [] IsP(toks, i, "[") ->
                    IF IsP(toks, i + 1, "]")
                    THEN Parsed(JVal("list", "", 0, <<>>), i + 2)
                    ELSE ParseElements(toks, i + 1, <<>>)
               [] IsP(toks, i, "{") ->
                    IF IsP(toks, i + 1, "}")
                    THEN Parsed(JVal("dict", "", 0, <<>>), i + 2)
                    ELSE ParseMembers(toks, i + 1, <<>>)
               [] OTHER -> ParseFail

\* value ("," value)* "]"
ParseElements(toks, i, acc) ==
    LET r == ParseValue(toks, i)
    IN  IF ~r.ok THEN ParseFail
        ELSE IF IsP(toks, r.next, "]")
             THEN Parsed(JVal("list", "", 0, Append(acc, r.val)), r.next + 1)
        ELSE IF IsP(toks, r.next, ",")
             THEN ParseElements(toks, r.next + 1, Append(acc, r.val))
        ELSE ParseFail

\* string ":" value ("," string ":" value)* "}"
ParseMembers(toks, i, acc) ==
    IF ~(i <= Len(toks) /\ toks[i].k = "str" /\ IsP(toks, i + 1, ":")) THEN ParseFail
    ELSE LET r == ParseValue(toks, i + 2)
             m == [key |-> toks[i].s, val |-> r.val]
         IN  IF ~r.ok THEN ParseFail
             ELSE IF IsP(toks, r.next, "}")
                  THEN Parsed(JVal("dict", "", 0, Append(acc, m)), r.next + 1)
             ELSE IF IsP(toks, r.next, ",")
                  THEN ParseMembers(toks, r.next + 1, Append(acc, m))
             ELSE ParseFail

\* json.loads(text): [ok, val]; the whole text must be one value.
Loads(toks) ==
    LET r == ParseValue(toks, 1)
    IN  IF r.ok /\ r.next = Len(toks) + 1 THEN r ELSE ParseFail

\* The value a dict holds for key (its last occurrence wins), as an Optional.
DictGet(v, key) ==
    LET hits == { i \in DOMAIN v.items : v.items[i].key = key }
    IN  IF hits = {} THEN None
        ELSE Some(v.items[CHOOSE i \in hits : \A j \in hits : j <= i].val)

\* Citation(**c) for a dict c: the Citation, or ValidationError when a field
\* is missing or has the wrong type.  doc_name takes a str, page an int (or
\* a float without fraction), score a float or an int.  Extra keys are
\* ignored.  (Other conversions between scalar types depend on the pydantic
\* version; RawTexts holds no such value.)
CitationFromDict(c) ==
    LET dn == DictGet(c, "doc_name")
        pg == DictGet(c, "page")
        sc == DictGet(c, "score")
    IN  IF /\ dn # None /\ pg # None /\ sc # None
           /\ The(dn).t = "str"
           /\ (The(pg).t = "int" \/ (The(pg).t = "float" /\ The(pg).n % 100 = 0))
           /\ The(sc).t \in {"int", "float"}
        THEN [ error |-> Ok,
               val |-> [ doc_name |-> The(dn).s,
                         page |-> IF The(pg).t = "int" THEN The(pg).n
                                  ELSE The(pg).n \div 100,
                         score |-> IF The(sc).t = "float" THEN The(sc).n
                                   ELSE The(sc).n * 100 ] ]
        ELSE [ error |-> ValidationError,
               val |-> [doc_name |-> "", page |-> 0, score |-> 0] ]

\* [Citation(**c) for c in citations_data] over a list's elements, in order:
\* the first element that is no mapping raises TypeError, the first that
\* fails validation raises ValidationError.
RECURSIVE CitationsFromItems(_, _)
CitationsFromItems(items, acc) ==
    IF items = <<>> THEN [error |-> Ok, val |-> acc]
    ELSE IF Head(items).t # "dict" THEN [error |-> TypeError, val |-> <<>>]
    ELSE LET c == CitationFromDict(Head(items))
         IN  IF c.error # Ok THEN [error |-> c.error, val |-> <<>>]
             ELSE CitationsFromItems(Tail(items), Append(acc, c.val))

\* [Citation(**c) for c in citations_data] for any decoded value: a list
\* yields its elements, a dict its keys and a str its characters (neither a
\* mapping), and anything else is not iterable.
CitationsFromData(v) ==
    CASE v.t = "list" -> CitationsFromItems(v.items, <<>>)
      [] v.t = "dict" -> IF v.items = <<>> THEN [error |-> Ok, val |-> <<>>]
                         ELSE [error |-> TypeError, val |-> <<>>]
      [] v.t = "str"  -> IF v.s = "" THEN [error |-> Ok, val |-> <<>>]
                         ELSE [error |-> TypeError, val |-> <<>>]
      [] OTHER        -> [error |-> TypeError, val |-> <<>>]

\* The loop body of get_messages_for_session for one row's citations column
\* (None for NULL, else Some(text)): [error, citations].  The except clause
\* catches json.JSONDecodeError and ValueError, of which pydantic's
\* ValidationError is a subclass; TypeError is neither and propagates.
RowCitations(column) ==
    IF column = None \/ The(column) = <<>> THEN [error |-> Ok, citations |-> None]
    ELSE LET citations_data == Loads(The(column))
         IN  IF ~citations_data.ok THEN [error |-> Ok, citations |-> None]
             ELSE LET r == CitationsFromData(citations_data.val)
                  IN  CASE r.error = Ok -> [error |-> Ok, citations |-> Some(r.val)]
                        [] r.error = ValidationError ->
                               [error |-> Ok, citations |-> None]
                        [] OTHER -> [error |-> r.error, citations |-> None]

\* create_message's serialization: None when message.citations is None or
\* empty (both falsy), else the JSON text.
CitationsJson(citations) ==
    IF citations # None /\ The(citations) # <<>>
    THEN Some(Dumps(The(citations)))
    ELSE None

\* get_messages_for_session on the rows in the order the SELECT gave them:
\* [error, result]; an exception in any row ends the call.
RECURSIVE BuildMessages(_, _)
BuildMessages(rows, acc) ==
    IF rows = <<>> THEN [error |-> Ok, result |-> acc]
    ELSE LET row == Head(rows)
             c == RowCitations(row.citations)
         IN  IF c.error # Ok THEN [error |-> c.error, result |-> <<>>]
             ELSE BuildMessages(Tail(rows),
                      Append(acc, [ id |-> row.id, session_id |-> row.session_id,
                                    role |-> row.role, content |-> row.content,
                                    citations |-> c.citations,
                                    created_at |-> row.created_at ]))

\* Every outcome get_messages_for_session may have on d.
GetMessagesForSession(d, session_id) ==
    { BuildMessages(rows, <<>>) : rows \in MessageRowsForSession(d, session_id) }

\* ------------------------------------------------------------ transactions

\* The statements each writing operation executes before session.commit().
Statements(op) == IF op \in {"delete_document", "delete_session"} THEN 2 ELSE 1

\* What an operation that returned normally hands to its caller: the id
\* RETURNING gave for a create, nothing for the others.
Returned(t) ==
    CASE t.op = "create_document" -> Some(t.work.seq.documents)
      [] t.op = "create_page"     -> Some(t.work.seq.pages)
      [] t.op = "create_session"  -> Some(t.work.seq.sessions)
      [] t.op = "create_message"  -> Some(t.work.seq.messages)
      [] OTHER                    -> None

\* Mutant: each statement is committed as it executes (autocommit), so a
\* failure leaves the statements executed so far in the database.
RolledBack_Autocommit(d, t) == t.work

\* The database readers see once a session is closed without commit (an
\* exception or a crash inside the with block): the transaction rolls back.
RolledBack(d, t) == d

Call(op, arg, error, result) ==
    [op |-> op, arg |-> arg, error |-> error, result |-> result]

\* The first statement of a writing operation: it opens the transaction and
\* takes SQLite's write lock.
Begin(op, arg, work) ==
    /\ txn = NoTxn
    /\ txn' = [op |-> op, arg |-> arg, work |-> work, pc |-> 1]
    /\ last' = NoCall
    /\ UNCHANGED <<db, now>>

\* A statement that raised before changing anything: the with block closes
\* the session and the exception reaches the caller.
Raise(op, arg, error) ==
    /\ txn = NoTxn
    /\ last' = Call(op, arg, error, None)
    /\ UNCHANGED <<db, txn, now>>

\* A read: one SELECT on the committed database.
Read(op, arg, error, result) ==
    /\ last' = Call(op, arg, error, result)
    /\ UNCHANGED <<db, txn, now>>

\* ----------------------------------------------------------------- actions

\* CURRENT_TIMESTAMP advances.
Tick ==
    /\ now < MaxClock
    /\ now' = now + 1
    /\ last' = NoCall
    /\ UNCHANGED <<db, txn>>

\* create_document, up to session.commit()
CreateDocument(doc) ==
    /\ db.seq.documents < MaxId
    /\ Begin("create_document", doc, InsertDocument(db, Document(doc)))

\* update_document_status, up to session.commit()
UpdateStatus(doc_id, status) ==
    Begin("update_document_status", [doc_id |-> doc_id, status |-> status],
          UpdateDocumentStatus(db, doc_id, status))

\* delete_document: the first DELETE (pages)
DeleteDocument(doc_id) ==
    Begin("delete_document", doc_id, DeletePagesWhere(db, doc_id))

\* delete_document: the second DELETE (the document)
DeleteDocumentRow ==
    /\ txn.op = "delete_document" /\ txn.pc = 1
    /\ txn' = [txn EXCEPT !.work = DeleteDocumentWhere(@, txn.arg), !.pc = 2]
    /\ last' = NoCall
    /\ UNCHANGED <<db, now>>

\* create_page, up to session.commit(); the INSERT raises IntegrityError on a
\* constraint.
CreatePage(page) ==
    IF PageKeyTaken(db, page) \/ PageParentMissing(db, page)
    THEN Raise("create_page", page, IntegrityError)
    ELSE /\ db.seq.pages < MaxId
         /\ Begin("create_page", page, InsertPage(db, page))

\* create_session, up to db_session.commit()
CreateSession(s) ==
    /\ db.seq.sessions < MaxId
    /\ Begin("create_session", s, InsertSession(db, s))

\* delete_session: the first DELETE (messages)
DeleteSession(session_id) ==
    Begin("delete_session", session_id, DeleteMessagesWhere(db, session_id))

\* delete_session: the second DELETE (the session)
DeleteSessionRow ==
    /\ txn.op = "delete_session" /\ txn.pc = 1
    /\ txn' = [txn EXCEPT !.work = DeleteSessionWhere(@, txn.arg), !.pc = 2]
    /\ last' = NoCall
    /\ UNCHANGED <<db, now>>

\* create_message, up to session.commit()
CreateMessage(m) ==
    IF MessageParentMissing(db, m)
    THEN Raise("create_message", m, IntegrityError)
    ELSE /\ db.seq.messages < MaxId
         /\ Begin("create_message", m, InsertMessage(db, m, CitationsJson(m.citations)))

\* delete_message, up to session.commit()
DeleteMessage(message_id) ==
    Begin("delete_message", message_id, DeleteMessageWhere(db, message_id))

\* session.commit() and the return
Commit ==
    /\ txn # NoTxn /\ txn.pc = Statements(txn.op)
    /\ db' = txn.work
    /\ txn' = NoTxn
    /\ last' = Call(txn.op, txn.arg, Ok, Returned(txn))
    /\ UNCHANGED now

\* A failure inside the with block, after any statement and before the
\* commit: the session closes and the transaction rolls back.
Abort ==
    /\ txn # NoTxn
    /\ db' = RolledBack(db, txn)
    /\ txn' = NoTxn
    /\ last' = Call(txn.op, txn.arg, Aborted, None)
    /\ UNCHANGED now

\* A writing operation that finds the write lock held until its busy timeout
\* ends: sqlite3 raises OperationalError (database is locked).
Locked(op) ==
    /\ txn # NoTxn
    /\ last' = Call(op, None, OperationalError, None)
    /\ UNCHANGED <<db, txn, now>>

GetDocumentCall(doc_id) ==
    Read("get_document", doc_id, Ok, GetDocument(db, doc_id))

ListDocumentsCall ==
    \E result \in ListDocuments(db) : Read("list_documents", None, Ok, result)

GetPagesForDocumentCall(doc_id) ==
    \E result \in GetPagesForDocument(db, doc_id) :
        Read("get_pages_for_document", doc_id, Ok, result)

SearchPagesCall(query, limit) ==
    \E result \in SearchPages(db, query, limit) :
        Read("search_pages", [query |-> query, limit |-> limit], Ok, result)

GetSessionCall(session_id) ==
    Read("get_session", session_id, Ok, GetSession(db, session_id))

ListSessionsCall ==
    \E result \in ListSessions(db) : Read("list_sessions", None, Ok, result)

GetMessagesForSessionCall(session_id) ==
    \E r \in GetMessagesForSession(db, session_id) :
        Read("get_messages_for_session", session_id, r.error, r.result)

GetMessageCountForSessionCall(session_id) ==
    Read("get_message_count_for_session", session_id, Ok,
         GetMessageCountForSession(db, session_id))

\* Another writer of the database file (the schema lets the citations column
\* hold any TEXT) stores a message row whose citations column is raw.
StoreRaw(session_id, raw) ==
    /\ db.seq.messages < MaxId
    /\ Begin("store_raw", [session_id |-> session_id, raw |-> raw],
             InsertMessage(db, [session_id |-> session_id, role |-> "assistant",
                                content |-> "raw"], Some(raw)))

\* ------------------------------------------------------------------ inputs

Init ==
    /\ db = EmptyDb
    /\ txn = NoTxn
    /\ last = NoCall
    /\ now = 0

Docs ==
    { [name |-> "a.pdf", bytes |-> 10, pages |-> 1, sha256 |-> "h1", status |-> None],
      [name |-> "b.pdf", bytes |-> 0, pages |-> 0, sha256 |-> "h2",
       status |-> Some("completed")] }

Sessions == { [title |-> "chat"] }

\* ------------------------------------------- the whole layer, small inputs

Rows == 1..MaxRows

Doc1 == [name |-> "a.pdf", bytes |-> 10, pages |-> 1, sha256 |-> "h1", status |-> None]

Pages0 == { [doc_id |-> i, page_no |-> 1, text |-> <<"a">>] : i \in Rows }

Messages0 ==
    { [session_id |-> i, role |-> "user", content |-> "hi", citations |-> None] : i \in Rows }

Next ==
    \/ db.seq.documents < MaxRows /\ CreateDocument(Doc1)
    \/ \E i \in Rows : DeleteDocument(i)
    \/ DeleteDocumentRow
    \/ \E page \in Pages0 : db.seq.pages < MaxRows /\ CreatePage(page)
    \/ \E s \in Sessions : db.seq.sessions < MaxRows /\ CreateSession(s)
    \/ \E i \in Rows : DeleteSession(i)
    \/ DeleteSessionRow
    \/ \E m \in Messages0 : CreateMessage(m)
    \/ Commit
    \/ Abort
    \/ \E op \in {"delete_document", "delete_session"} : Locked(op)

Spec == Init /\ [][Next]_vars

\* ---------------------------------------------------- documents and pages

Pages1 == { [doc_id |-> i, page_no |-> n, text |-> <<"a">>] : i \in Ids, n \in {1, 2} }

NextDocs ==
    \/ \E doc \in Docs : CreateDocument(doc)
    \/ \E i \in Ids : DeleteDocument(i)
    \/ DeleteDocumentRow
    \/ \E page \in Pages1 : CreatePage(page)
    \/ Commit
    \/ Abort
    \/ Locked("create_page")
    \/ \E i \in 1..(MaxId + 1) : GetDocumentCall(i)
    \/ \E i \in Ids : GetPagesForDocumentCall(i)

SpecDocs == Init /\ [][NextDocs]_vars

\* ------------------------------------------------- document status, search

\* Page texts and search queries, as sequences of characters.
Texts == { <<"a", "b">>, <<"A">>, <<"c">> }

Queries == { <<>>, <<"a">>, <<"b">>, <<"_">>, <<"%">> }

Limits == { 0, 1, 2 }

Pages2 == { [doc_id |-> 1, page_no |-> n, text |-> t] : n \in {1, 2}, t \in Texts }

NextSearch ==
    \/ CreateDocument(Doc1)
    \/ \E i \in Ids, st \in {"processing", "completed", "error"} : UpdateStatus(i, st)
    \/ \E page \in Pages2 : CreatePage(page)
    \/ Commit
    \/ ListDocumentsCall
    \/ \E q \in Queries, l \in Limits : SearchPagesCall(q, l)

SpecSearch == Init /\ [][NextSearch]_vars

\* ---------------------------------------------------- sessions and messages

Cite1 == [doc_name |-> "a.pdf", page |-> 3, score |-> 82]

Messages1 ==
    { [session_id |-> i, role |-> "user", content |-> "hi", citations |-> c] :
        i \in Ids, c \in {None, Some(<<Cite1>>)} }

NextChat ==
    \/ \E s \in Sessions : CreateSession(s)
    \/ \E i \in Ids : DeleteSession(i)
    \/ DeleteSessionRow
    \/ \E m \in Messages1 : CreateMessage(m)
    \/ \E i \in Ids : DeleteMessage(i)
    \/ Commit
    \/ Abort
    \/ Locked("create_message")
    \/ \E i \in Ids : GetMessageCountForSessionCall(i)

SpecChat == Init /\ [][NextChat]_vars

\* ------------------------------------------------------ conversation order

Messages2 ==
    { [session_id |-> 1, role |-> r, content |-> "hi", citations |-> None] : r \in Roles }

NextOrder ==
    \/ Tick
    \/ \E s \in Sessions : CreateSession(s)
    \/ ListSessionsCall
    \/ \E i \in Ids : GetSessionCall(i)
    \/ \E m \in Messages2 : CreateMessage(m)
    \/ \E i \in Ids : DeleteMessage(i)
    \/ Commit
    \/ \E i \in Ids : GetMessagesForSessionCall(i)

SpecOrder == Init /\ [][NextOrder]_vars

\* --------------------------------------------------------------- citations

Citations ==
    { [doc_name |-> n, page |-> 3, score |-> s] : n \in {"a.pdf", "b.pdf"}, s \in {82, 100} }

\* Every list of at most n citations.
RECURSIVE CitationLists(_)
CitationLists(n) ==
    IF n = 0 THEN { <<>> }
    ELSE LET shorter == CitationLists(n - 1)
         IN  shorter \cup { Append(l, c) : l \in shorter, c \in Citations }

Messages3 ==
    { [session_id |-> 1, role |-> "assistant", content |-> "hi", citations |-> c] :
        c \in {None} \cup { Some(l) : l \in CitationLists(MaxCitations) } }

\* Stored citations text: a good list, and text that is no JSON, JSON that is
\* no list, and lists whose elements are no citation records.
RawTexts ==
    { Dumps(<<Cite1>>),
      <<>>,
      <<TBad>>,
      <<P("["), P("{")>>,
      <<TInt(5)>>,
      <<TNull>>,
      <<TStr("abc")>>,
      <<P("{"), P("}")>>,
      <<P("{"), TStr("doc_name"), P(":"), TStr("a.pdf"), P("}")>>,
      <<P("["), TInt(1), P("]")>>,
      <<P("["), TStr("a.pdf"), P("]")>>,
      <<P("["), P("{"), TStr("doc_name"), P(":"), TStr("a.pdf"), P("}"), P("]")>>,
      <<P("["), P("{"), TStr("doc_name"), P(":"), TStr("a.pdf"), P(","),
        TStr("page"), P(":"), TStr("three"), P(","),
        TStr("score"), P(":"), TFloat(82), P("}"), P("]")>>,
      <<P("["), P("{"), TStr("doc_name"), P(":"), TStr("a.pdf"), P("}"), P(","),
        TInt(1), P("]")>> }

NextCit ==
    \/ \E s \in Sessions : CreateSession(s)
    \/ \E m \in Messages3 : CreateMessage(m)
    \/ \E i \in Ids : DeleteMessage(i)
    \/ Commit
    \/ Abort
    \/ GetMessagesForSessionCall(1)

SpecCit == Init /\ [][NextCit]_vars

\* ------------------------------------------------- stored citations text

NextRaw ==
    \/ \E s \in Sessions : CreateSession(s)
    \/ \E m \in Messages1 : CreateMessage(m)
    \/ \E raw \in RawTexts : StoreRaw(1, raw)
    \/ Commit
    \/ \E i \in Ids : GetMessagesForSessionCall(i)

SpecRaw == Init /\ [][NextRaw]_vars

\* ================================================================= claims

PagesOf(d, doc_id) == { r \in d.pages : r.doc_id = doc_id }

MessagesOf(d, session_id) == { r \in d.messages : r.session_id = session_id }

\* C1: delete_session and delete_document are atomic for every reader.  A
\* step of either operation that changes the committed database leaves it
\* with the parent row and all of its child rows gone (so a failure between
\* the two DELETEs, which changes nothing, leaves the parent and all of its
\* children present), and no step removes a session or document row from the
\* committed database while leaving one of its messages or pages behind.
C1_DeleteAtomic ==
    [][ /\ (txn.op = "delete_session" /\ db' # db)
           => /\ GetSession(db', txn.arg) = None
              /\ MessagesOf(db', txn.arg) = {}
        /\ (txn.op = "delete_document" /\ db' # db)
           => /\ GetDocument(db', txn.arg) = None
              /\ PagesOf(db', txn.arg) = {}
        /\ \A i \in 1..(MaxRows + 1) :
              /\ (GetSession(db, i) # None /\ GetSession(db', i) = None)
                 => MessagesOf(db', i) = {}
              /\ (GetDocument(db, i) # None /\ GetDocument(db', i) = None)
                 => PagesOf(db', i) = {}
      ]_vars

\* C1 witness: delete_session has executed its first DELETE and not yet its
\* second, on a session that has two messages; readers still see all three
\* rows.
C1_Witness ==
    /\ txn.op = "delete_session" /\ txn.pc = 1
    /\ GetSession(db, txn.arg) # None
    /\ Cardinality(MessagesOf(db, txn.arg)) = 2
    /\ MessagesOf(txn.work, txn.arg) = {}

\* C8: a create_page or create_message naming a missing parent fails with a
\* constraint error and inserts nothing, so every page's doc_id names an
\* existing document and every message's session_id an existing session.
C8_ForeignKeys ==
    /\ \A r \in db.pages : GetDocument(db, r.doc_id) # None
    /\ \A r \in db.messages : GetSession(db, r.session_id) # None
    /\ (last.op = "create_page" /\ last.error = Ok)
       => GetDocument(db, last.arg.doc_id) # None
    /\ (last.op = "create_message" /\ last.error = Ok)
       => GetSession(db, last.arg.session_id) # None

\* C10: the document get_document returns for the id create_document(D)
\* returned has D's name, bytes, pages and sha256 and D's status, NEW when D
\* gave none; get_document of an id never issued, or of a deleted document,
\* returns None and does not raise.
C10_DocumentRoundTrip ==
    /\ (last.op = "create_document" /\ last.error = Ok)
       => LET got == GetDocument(db, The(last.result))
              D == last.arg
          IN  /\ got # None
              /\ The(got).name = D.name
              /\ The(got).bytes = D.bytes
              /\ The(got).pages = D.pages
              /\ The(got).sha256 = D.sha256
              /\ The(got).status = IF D.status = None THEN "new" ELSE The(D.status)
    /\ (last.op = "get_document" /\ ~ \E r \in db.documents : r.id = last.arg)
       => last.error = Ok /\ last.result = None

\* C10 witness: create_document has returned for a document that gave no
\* status.
C10_Witness ==
    /\ last.op = "create_document" /\ last.error = Ok
    /\ last.arg.status = None
    /\ GetDocument(db, The(last.result)) # None

\* C2: once delete_document(d) has returned, get_pages_for_document(d) is
\* empty and list_documents holds no document with id d; every other document
\* and every page of another document is unchanged; and when no document with
\* id d existed the call raised nothing and changed no row.
C2_DeleteDocument ==
    [][ (txn.op = "delete_document" /\ txn' = NoTxn /\ last'.error = Ok)
        => LET d == txn.arg
           IN  /\ GetPagesForDocument(db', d) = { <<>> }
               /\ \A f \in ListDocuments(db') : \A i \in DOMAIN f : f[i].id # d
               /\ { r \in db'.documents : r.id # d } = { r \in db.documents : r.id # d }
               /\ { r \in db'.pages : r.doc_id # d } = { r \in db.pages : r.doc_id # d }
               /\ (GetDocument(db, d) = None => db' = db)
      ]_vars

\* C3: the pages table never holds two rows with one (doc_id, page_no); a
\* create_page whose key an existing row has raises the constraint error,
\* returns no id and leaves that one row; and a create_page that goes on to
\* insert found no row with its key.
C3_UniquePageKey ==
    /\ [](/\ \A p, q \in db.pages :
                (p.doc_id = q.doc_id /\ p.page_no = q.page_no) => p = q
          /\ (last.op = "create_page" /\ last.error = IntegrityError)
             => /\ last.result = None
                /\ Cardinality({ r \in db.pages : /\ r.doc_id = last.arg.doc_id
                                                  /\ r.page_no = last.arg.page_no }) = 1)
    /\ [][ /\ (txn = NoTxn /\ txn'.op = "create_page") => ~PageKeyTaken(db, txn'.arg)
           /\ (last'.op = "create_page" /\ last'.error = IntegrityError) => db' = db
         ]_vars

\* C3 witness: a create_page was refused for a key a row already has.
C3_Witness ==
    /\ last.op = "create_page" /\ last.error = IntegrityError
    /\ \E r \in db.pages : r.doc_id = last.arg.doc_id /\ r.page_no = last.arg.page_no

\* query occurs in str as a literal substring.
Contains(str, query) ==
    \E i \in 0..(Len(str) - Len(query)) : SubSeq(str, i + 1, i + Len(query)) = query

\* C4: search_pages(query, limit) returns at most limit results, each a page
\* whose text contains query as a literal substring, with the score 1.0.
C4_Search ==
    (last.op = "search_pages" /\ last.error = Ok)
    => /\ Len(last.result) <= last.arg.limit
       /\ \A i \in DOMAIN last.result :
             /\ Contains(last.result[i].page.text, last.arg.query)
             /\ last.result[i].score = 100

\* C5: the citations get_messages_for_session reads back for a message equal
\* the citations create_message was given: a list of any length comes back
\* as the same list, and omitted citations come back as None.
C5_CitationsRoundTrip ==
    (last.op = "create_message" /\ last.error = Ok)
    => \A r \in GetMessagesForSession(db, last.arg.session_id) :
          /\ r.error = Ok
          /\ \A i \in DOMAIN r.result :
                r.result[i].id = The(last.result)
                => r.result[i].citations = last.arg.citations

\* The citations text decodes into a list of citation records.
Deserializable(text) ==
    LET v == Loads(text)
    IN  /\ v.ok
        /\ v.val.t = "list"
        /\ \A i \in DOMAIN v.val.items :
              /\ v.val.items[i].t = "dict"
              /\ CitationFromDict(v.val.items[i]).error = Ok

\* C6: get_messages_for_session does not raise on a citations column that
\* cannot be deserialized: it returns every message of the session, and
\* those with such a column with citations None.
C6_MalformedCitations ==
    (last.op = "get_messages_for_session")
    => /\ last.error = Ok
       /\ { last.result[i].id : i \in DOMAIN last.result }
            = { r.id : r \in MessagesOf(db, last.arg) }
       /\ \A i \in DOMAIN last.result :
             \A r \in MessagesOf(db, last.arg) :
                (r.id = last.result[i].id /\ r.citations # None
                 /\ ~Deserializable(The(r.citations)))
                => last.result[i].citations = None

\* C7: get_messages_for_session returns the session's messages by created_at
\* ascending, and messages of one created_at by id ascending.
C7_ConversationOrder ==
    (last.op = "get_messages_for_session" /\ last.error = Ok)
    => \A i, j \in DOMAIN last.result :
          i < j => \/ last.result[i].created_at < last.result[j].created_at
                   \/ /\ last.result[i].created_at = last.result[j].created_at
                      /\ last.result[i].id < last.result[j].id

\* C9: get_message_count_for_session(s) never raises and equals the number
\* of messages get_messages_for_session(s) returns; it is 0 while no message
\* was created for s, grows by one with every create_message for s, and
\* falls only with delete_message and delete_session.
C9_MessageCount ==
    /\ [](/\ (last.op = "get_message_count_for_session")
             => /\ last.error = Ok
                /\ \A r \in GetMessagesForSession(db, last.arg) :
                      r.error = Ok /\ Len(r.result) = last.result
          /\ \A s \in Ids :
                MessagesOf(db, s) = {} => GetMessageCountForSession(db, s) = 0)
    /\ [][ \A s \in Ids :
             LET before == GetMessageCountForSession(db, s)
                 after == GetMessageCountForSession(db', s)
                 returns == txn # NoTxn /\ txn' = NoTxn /\ last'.error = Ok
             IN  /\ (returns /\ txn.op = "create_message" /\ txn.arg.session_id = s)
                    => after = before + 1
                 /\ (returns /\ txn.op = "delete_session" /\ txn.arg = s)
                    => after = 0
                 /\ (returns /\ txn.op = "delete_message")
                    => after = before - Cardinality({ r \in MessagesOf(db, s) :
                                                        r.id = txn.arg })
                 /\ after # before
                    => returns /\ txn.op \in {"create_message", "delete_message",
                                              "delete_session"}
         ]_vars

\* C9 witness: the count was read for a session with two messages.
C9_Witness ==
    /\ last.op = "get_message_count_for_session" /\ last.error = Ok
    /\ last.result = 2
    /\ GetSession(db, last.arg) # None

====
